---- MODULE Spec2Model ----
(***************************************************************************)
(* The sub-agent monitor of skills/subagent-monitor-notifier/skill.py:     *)
(* class SubAgentMonitor with its poll engine (_poll_agents), its          *)
(* dedup cache (alert_cache), its notification dispatcher                  *)
(* (_send_notifications), its lifecycle (start_monitoring,                 *)
(* stop_monitoring) and the APScheduler BackgroundScheduler it drives.     *)
(*                                                                         *)
(* Spec     : every handler is one atomic action (calls made one after     *)
(*            the other, scheduler-fired polls between them).              *)
(* ConcSpec : the caller's thread and the scheduler's worker thread        *)
(*            interleave at the statements of _poll_agents.                *)
(* LifeSpec : as Spec, on the inputs that exercise the lifecycle.          *)
(* QuerySpec, TimeSpec, NotifySpec : as Spec, with the queries, with time  *)
(*            passing, with the network channels and their environment.    *)
(* RaceSpec, StopSpec, OrderSpec : as ConcSpec, with the tracking loop of  *)
(*            start_monitoring split, with a fair worker, with time.       *)
(* SourceSpec : as LifeSpec, with status files whose agent_id and status   *)
(*            are not the expected ones.                                   *)
(* SunoSpec : one call of SunoAIMusicGenerator.generate_music of           *)
(*            skills/suno-music-generator/skill.py and its polling loop.   *)
(***************************************************************************)
EXTENDS Integers, Sequences, FiniteSets, TLC

VARIABLES
    notification_channels,  \* self.notification_channels (constructor)
    enable_scheduling,      \* self.enable_scheduling; self.scheduler is not None iff TRUE
    agent_statuses,         \* self.agent_statuses : agent_id -> snapshot
    status_history,         \* self.status_history : agent_id -> list of snapshots
    status_changes,         \* self.status_changes : agent_id -> list of StatusChange
    last_poll_time,         \* self.last_poll_time : the agent_ids that have an entry
    alert_cache,            \* self.alert_cache    : set of change hashes
    polling_active,         \* self.polling_active
    sched_running,          \* self.scheduler.running
    sched_jobs,             \* the jobs held by self.scheduler
    notifications,          \* the _send_notifications calls made so far (a multiset)
    failing,                \* environment: the channels whose transport fails
    environ,                \* environment: os.environ, the webhook URLs
    clock,                  \* environment: the time datetime.now() reads
    result,                 \* the value returned by the last control-surface call
    returned,               \* the list returned by the last _poll_agents
    observed,               \* what the last _poll_agents saw, per agent processed
    pc,                     \* ConcSpec, SunoSpec: position of each thread
    frame                   \* ConcSpec, SunoSpec: the locals of each thread's call

vars == <<notification_channels, enable_scheduling, agent_statuses, status_history,
          status_changes, last_poll_time, alert_cache, polling_active, sched_running,
          sched_jobs, notifications, failing, environ, clock, result, returned,
          observed, pc,
          frame>>

monitor_vars == <<agent_statuses, status_history, status_changes, last_poll_time,
                  alert_cache>>

(***************************************************************************)
(* Bounds and input sets.                                                  *)
(***************************************************************************)
\* the longest history an agent is polled up to
MaxHistory == 3

\* the latest instant the clock reaches
MaxTime == 2

AgentIds == {"a1", "a2", "a1:unknown"}

\* the values of the enumeration AgentStatus
AgentStatus ==
    {"pending", "running", "completed", "failed", "timeout", "cancelled", "unknown"}

\* AgentStatus.UNKNOWN.value
UNKNOWN == "unknown"

\* the statuses a status file reports
FileStatuses == {"running", "failed"}

\* schedule_pattern: None, two valid crontab expressions, one invalid
NoPattern == << >>
EveryMinute == <<"*/1", "*", "*", "*", "*">>
Hourly == <<"0", "*", "*", "*", "*">>
BadPattern == <<"every", "minute">>
SchedulePatterns == {NoPattern, EveryMinute, Hourly, BadPattern}

\* the notification_channels given to the constructor
ChannelConfigs == {<<"log">>, <<"file", "Webhook", "log">>}

\* the sets of channels whose transport fails during a run
FailingSets == {{}, {"file", "webhook"}}

None == [kind |-> "None"]

Threads == {"caller", "worker"}

(***************************************************************************)
(* Data model.                                                             *)
(***************************************************************************)
\* AgentStatusSnapshot (agent_name, details, error_message, completion_percentage
\* and session_id are carried along unread by the monitor and left out)
AgentStatusSnapshot(agent_id, status, timestamp) ==
    [agent_id |-> agent_id, status |-> status, timestamp |-> timestamp]

\* hashlib.md5(s.encode()).hexdigest(): a digest of the string, taken as
\* collision-free on the strings of the model
md5(s) == <<"md5", s>>

\* change_str and change.change_hash of _poll_agents
change_hash(agent_id, previous_status, new_status) ==
    md5(agent_id \o ":" \o previous_status \o ":" \o new_status)

\* StatusChange as _poll_agents builds it (timestamp and reason left out)
StatusChange(agent_id, previous_status, new_status) ==
    [agent_id |-> agent_id,
     previous_status |-> previous_status,
     new_status |-> new_status,
     change_hash |-> change_hash(agent_id, previous_status, new_status)]

\* what a read of <agent_id>_status.json finds: no file, a file that does not
\* load into an AgentStatusSnapshot, or a snapshot with the timestamp its
\* writer gave it
NoFile == [kind |-> "absent"]
BadFile == [kind |-> "malformed"]
TimedFile(agent_id, status, timestamp) ==
    [kind |-> "data", snap |-> AgentStatusSnapshot(agent_id, status, timestamp)]

\* a status file written at the instant it is read
DataFile(agent_id, status) == TimedFile(agent_id, status, clock)

\* the number of copies of x in the multiset b
Get0(b, x) == IF x \in DOMAIN b THEN b[x] ELSE 0

\* dict.get
Get(d, k) == IF k \in DOMAIN d THEN d[k] ELSE None

\* d[k] = v on a dict
Put(d, k, v) == [x \in DOMAIN d \cup {k} |-> IF x = k THEN v ELSE d[x]]

\* one more copy of x in the multiset b
BagAdd(b, x) ==
    [y \in DOMAIN b \cup {x} |-> IF y = x THEN Get0(b, x) + 1 ELSE b[y]]

\* str.lower on the channel names and the action names of the model
Lower(name) ==
    CASE name = "Webhook" -> "webhook"
      [] name = "LOG" -> "log"
      [] name = "START" -> "start"
      [] OTHER -> name

(***************************************************************************)
(* Notification dispatcher.                                                *)
(***************************************************************************)
\* a URL as the notifiers look at it: its scheme and what follows "://"
Url(scheme, rest) == [scheme |-> scheme, rest |-> rest]

\* os.getenv of a variable that is not set (or set to the empty string)
NoUrl == Url("", "")

\* the environment variable _notify_webhook and _notify_slack read
url_variable(kind) ==
    IF kind = "slack" THEN "SLACK_WEBHOOK_URL" ELSE "NOTIFICATION_WEBHOOK_URL"

\* the environments of the model: the two variables unset, set to a URL that
\* is not HTTP(S), or set to one of two secret URLs
Environs ==
    {[v \in {"NOTIFICATION_WEBHOOK_URL", "SLACK_WEBHOOK_URL"} |-> u] :
        u \in {NoUrl, Url("ftp", "hooks/T0"), Url("https", "hooks/T1"),
               Url("https", "hooks/T2")}}

\* the environment of a deployment with its webhooks configured
DefaultEnviron ==
    [v \in {"NOTIFICATION_WEBHOOK_URL", "SLACK_WEBHOOK_URL"} |-> Url("https", "hooks/T1")]

\* webhook_branch without the `if not webhook_url` of lines 411-413
webhook_branch_unchecked(url) ==
    IF url.scheme \notin {"http", "https"} THEN "invalid" ELSE "post"

\* lines 411-417 (and 459-465): what the notifier does with the URL it read
webhook_branch(url) ==
    IF url = NoUrl THEN "disabled"
    ELSE IF url.scheme \notin {"http", "https"} THEN "invalid"
    ELSE "post"

\* the notifier _send_notifications picks for a lower-cased channel name, run
\* with the transports in `fails` failing: "ok", "failed" (the notifier's own
\* try/except logged the failure), "raised" (the exception leaves the
\* notifier), "disabled" or "invalid" (the notifier returned before any
\* request) or "none" (no branch of the if/elif chain matches)
notify_in(env, kind, fails) ==
    CASE kind = "log" -> "ok"
      [] kind = "file" -> IF "file" \in fails THEN "raised" ELSE "ok"
      [] kind \in {"email", "sms"} -> "ok"
      [] kind \in {"webhook", "slack"} ->
            LET branch == webhook_branch(env[url_variable(kind)])
            IN IF branch # "post" THEN branch
               ELSE IF kind \in fails THEN "failed" ELSE "ok"
      [] OTHER -> "none"

\* the notifier run in the environment of the process
notify(kind, fails) == notify_in(environ, kind, fails)

\* the requests.post calls of one notifier run (lines 436 and 488)
requests_post(kind) ==
    IF /\ kind \in {"webhook", "slack"}
       /\ webhook_branch(environ[url_variable(kind)]) = "post"
    THEN 1 ELSE 0

\* channel_attempt without the except: what the notifier raises leaves the loop
channel_attempt_uncaught(channel, fails) ==
    [channel |-> channel,
     outcome |-> notify(Lower(channel), fails),
     propagates |-> notify(Lower(channel), fails) = "raised"]

\* one pass of the loop body of _send_notifications: the try around the
\* notifier and the except that logs what it raised
channel_attempt(channel, fails) ==
    [channel |-> channel,
     outcome |-> notify(Lower(channel), fails),
     propagates |-> FALSE]

RECURSIVE send_loop(_, _, _)
\* the for loop of _send_notifications from position i on
send_loop(channels, i, fails) ==
    IF i > Len(channels) THEN [attempts |-> << >>, raised |-> FALSE]
    ELSE LET a == channel_attempt(channels[i], fails)
             done == [channel |-> a.channel, outcome |-> a.outcome]
         IN IF a.propagates
            THEN [attempts |-> <<done>>, raised |-> TRUE]
            ELSE LET rest == send_loop(channels, i + 1, fails)
                 IN [attempts |-> <<done>> \o rest.attempts, raised |-> rest.raised]

\* _notify_log (lines 378-379): the level the alert is logged at
notify_log(change) ==
    IF change.new_status \in {"FAILED", "TIMEOUT"} THEN "WARNING" ELSE "INFO"

\* a record handed to the module's logger
LogRecord(level, message) == [level |-> level, message |-> message]

\* safe_log_api_call (utils.py lines 103-128): the details with the values of
\* the keys api_key, token, secret and password masked, logged at error level
\* when the status is "error" and at info level otherwise
safe_log_api_call(api_name, operation, status, details) ==
    LogRecord(IF status = "error" THEN "ERROR" ELSE "INFO",
              [api |-> api_name, operation |-> operation, status |-> status,
               details |-> [k \in DOMAIN details |->
                              IF k \in {"api_key", "token", "secret", "password"}
                              THEN "***REDACTED***" ELSE details[k]]])

\* str(e) of the exception requests.post raises when the request fails: the
\* text of a requests ConnectionError names the host and the path of the URL
request_error(url) == [text |-> "Max retries exceeded with url", url |-> url]

\* the records _notify_webhook (lines 405-452) and _notify_slack (lines
\* 454-502) log when run in the environment env
webhook_logs_in(env, kind, change, fails) ==
    LET url == env[url_variable(kind)]
        operation == "notify_" \o kind
        branch == webhook_branch(url)
        sending == safe_log_api_call("SubAgentMonitor", operation, "sending",
                       [agent_id |-> change.agent_id, status |-> change.new_status])
    IN CASE branch = "disabled" ->
                <<LogRecord("DEBUG", [text |-> "notifications disabled: URL not set",
                                      channel |-> kind])>>
         [] branch = "invalid" ->
                <<LogRecord("ERROR", [text |-> "Invalid URL format (must be HTTP/HTTPS)",
                                      channel |-> kind])>>
         [] OTHER ->
                IF kind \in fails
                THEN <<sending,
                       safe_log_api_call("SubAgentMonitor", operation, "error",
                           [error |-> request_error(url),
                            error_type |-> "ConnectionError"])>>
                ELSE <<sending,
                       safe_log_api_call("SubAgentMonitor", operation, "success",
                           [agent_id |-> change.agent_id])>>

\* the records of the notifier run in the environment of the process
webhook_logs(kind, change, fails) == webhook_logs_in(environ, kind, change, fails)

\* the records one pass of the loop of _send_notifications logs: those of the
\* notifier, and the logger.error of line 355 when the notifier raised
attempt_logs(channel, change, fails) ==
    LET kind == Lower(channel)
    IN CASE kind = "log" ->
                <<LogRecord(notify_log(change), [text |-> "ALERT", change |-> change])>>
         [] kind \in {"webhook", "slack"} -> webhook_logs(kind, change, fails)
         [] notify(kind, fails) = "raised" ->
                <<LogRecord("ERROR", [text |-> "Failed to send notification",
                                      channel |-> channel])>>
         [] OTHER -> << >>

\* _send_notifications(change, current_status): the attempts it makes, the
\* level each attempt on the log channel logs the alert at, and whether an
\* exception leaves it
send_notifications(channels, change, fails) ==
    LET sent == send_loop(channels, 1, fails)
    IN [change |-> change, attempts |-> sent.attempts, raised |-> sent.raised,
        log_levels |-> [i \in 1 .. Len(sent.attempts) |->
                          IF Lower(sent.attempts[i].channel) = "log"
                          THEN notify_log(change) ELSE "none"],
        posts |-> [i \in 1 .. Len(sent.attempts) |->
                     requests_post(Lower(sent.attempts[i].channel))],
        logs |-> [i \in 1 .. Len(sent.attempts) |->
                    attempt_logs(sent.attempts[i].channel, change, fails)]]

(***************************************************************************)
(* Poll engine.                                                            *)
(***************************************************************************)
\* fetch_agent_status with an UNKNOWN snapshot for every file that fails to
\* load, the current known snapshot never consulted
fetch_agent_status_unknown(statuses, agent_id, file) ==
    IF file.kind = "data" THEN file.snap
    ELSE AgentStatusSnapshot(agent_id, UNKNOWN, clock)

\* _fetch_agent_status: the status file when it loads, else the current
\* known snapshot, else an UNKNOWN snapshot
fetch_agent_status(statuses, agent_id, file) ==
    IF file.kind = "data" THEN file.snap
    ELSE IF agent_id \in DOMAIN statuses THEN statuses[agent_id]
    ELSE AgentStatusSnapshot(agent_id, UNKNOWN, clock)

\* status_differs without the comparison of the two statuses
status_differs_always(previous_status, current_status) ==
    previous_status # None

\* the test of line 259
status_differs(previous_status, current_status) ==
    previous_status # None /\ current_status.status # previous_status.status

\* is_novel without the look-up in the cache
is_novel_always(cache, change) == TRUE

\* the test of line 273
is_novel(cache, change) == change.change_hash \notin cache

\* record_change without the alert_cache.add of line 276
record_change_uncached(st, change, channels, fails) ==
    IF change.agent_id \notin DOMAIN st.status_changes THEN st
    ELSE [st EXCEPT
            !.status_changes[change.agent_id] = Append(@, change),
            !.changes = Append(@, change),
            !.notifications =
                LET sent == send_notifications(channels, change, fails)
                IN BagAdd(@, [change |-> change, attempts |-> sent.attempts,
                              log_levels |-> sent.log_levels,
                              posts |-> sent.posts, logs |-> sent.logs])]

\* record_change without the append to status_changes of line 274
record_change_unlisted(st, change, channels, fails) ==
    IF change.agent_id \notin DOMAIN st.status_changes THEN st
    ELSE [st EXCEPT
            !.changes = Append(@, change),
            !.alert_cache = @ \cup {change.change_hash}]

\* lines 274-279: record the change, remember its hash, dispatch
record_change(st, change, channels, fails) ==
    IF change.agent_id \notin DOMAIN st.status_changes THEN st
    ELSE [st EXCEPT
            !.status_changes[change.agent_id] = Append(@, change),
            !.changes = Append(@, change),
            !.alert_cache = @ \cup {change.change_hash},
            !.notifications =
                LET sent == send_notifications(channels, change, fails)
                IN BagAdd(@, [change |-> change, attempts |-> sent.attempts,
                              log_levels |-> sent.log_levels,
                              posts |-> sent.posts, logs |-> sent.logs])]

\* update_status with the history overwritten instead of appended to
update_status_replacing(st, agent_id, current_status) ==
    IF agent_id \notin DOMAIN st.status_history
    THEN [st EXCEPT !.agent_statuses = Put(@, agent_id, current_status)]
    ELSE [st EXCEPT
            !.agent_statuses = Put(@, agent_id, current_status),
            !.status_history[agent_id] = <<current_status>>,
            !.last_poll_time = @ \cup {agent_id}]

\* update_status skipped when the fetched status differs from the current one
update_status_unless_changed(st, agent_id, current_status) ==
    IF agent_id \notin DOMAIN st.status_history
    THEN [st EXCEPT !.agent_statuses = Put(@, agent_id, current_status)]
    ELSE IF st.agent_statuses[agent_id].status # current_status.status THEN st
    ELSE [st EXCEPT
            !.agent_statuses = Put(@, agent_id, current_status),
            !.status_history[agent_id] = Append(@, current_status),
            !.last_poll_time = @ \cup {agent_id}]

\* lines 282-284: the new snapshot becomes current and joins the history
update_status(st, agent_id, current_status) ==
    IF agent_id \notin DOMAIN st.status_history
    THEN [st EXCEPT !.agent_statuses = Put(@, agent_id, current_status)]
    ELSE [st EXCEPT
            !.agent_statuses = Put(@, agent_id, current_status),
            !.status_history[agent_id] = Append(@, current_status),
            !.last_poll_time = @ \cup {agent_id}]

\* the body of the for loop of _poll_agents for one agent (lines 252-292)
poll_one(st, agent_id, file, channels, fails) ==
    LET current_status == fetch_agent_status(st.agent_statuses, agent_id, file)
        previous_status == Get(st.agent_statuses, agent_id)
        detected == status_differs(previous_status, current_status)
        change == StatusChange(agent_id, previous_status.status, current_status.status)
        novel == detected /\ is_novel(st.alert_cache, change)
        raised == novel /\ (change.agent_id \notin DOMAIN st.status_changes
                            \/ send_notifications(channels, change, fails).raised)
        st1 == IF novel THEN record_change(st, change, channels, fails) ELSE st
        st2 == IF raised THEN st1 ELSE update_status(st1, agent_id, current_status)
    IN [st2 EXCEPT !.observed =
            Append(@, [agent_id |-> agent_id,
                       previous_status |-> IF previous_status = None THEN "None"
                                           ELSE previous_status.status,
                       status |-> current_status.status,
                       cached |-> previous_status # None
                                  /\ change.change_hash \in st.alert_cache])]

RECURSIVE poll_loop(_, _, _, _, _, _)
\* the for loop of _poll_agents from position i on; files[i] is what the read
\* of the i-th agent's status file finds
poll_loop(st, agent_ids, i, files, channels, fails) ==
    IF i > Len(agent_ids) THEN st
    ELSE poll_loop(poll_one(st, agent_ids[i], files[i], channels, fails),
                   agent_ids, i + 1, files, channels, fails)

\* the monitor state _poll_agents works on, with its locals
monitor_state ==
    [agent_statuses |-> agent_statuses, status_history |-> status_history,
     status_changes |-> status_changes, last_poll_time |-> last_poll_time,
     alert_cache |-> alert_cache, notifications |-> notifications,
     changes |-> << >>, observed |-> << >>]

\* _poll_agents(agent_ids) run from monitor state st
poll_agents(st, agent_ids, files, channels, fails) ==
    poll_loop([st EXCEPT !.changes = << >>, !.observed = << >>],
              agent_ids, 1, files, channels, fails)

\* the files a poll of agent_ids may find, one per position, when the status
\* source offers files[a] for agent a
FilesFor(agent_ids, files) ==
    {f \in [1 .. Len(agent_ids) -> UNION {files[a] : a \in AgentIds}] :
        \A i \in 1 .. Len(agent_ids) : f[i] \in files[agent_ids[i]]}

\* the history bound: every agent of the list can take its polls
RoomFor(history, agent_ids) ==
    \A a \in AgentIds :
        a \in DOMAIN history =>
            Len(history[a]) + Cardinality({i \in 1 .. Len(agent_ids) : agent_ids[i] = a})
                <= MaxHistory

\* the monitor state written back
Store(st) ==
    /\ agent_statuses' = st.agent_statuses
    /\ status_history' = st.status_history
    /\ status_changes' = st.status_changes
    /\ last_poll_time' = st.last_poll_time
    /\ alert_cache' = st.alert_cache
    /\ notifications' = st.notifications

(***************************************************************************)
(* Scheduler (APScheduler BackgroundScheduler, as the monitor uses it).    *)
(***************************************************************************)
\* CronTrigger.from_crontab(schedule_pattern) accepts five fields and raises
\* ValueError otherwise
valid_crontab(pattern) == Len(pattern) = 5

\* the job start_monitoring schedules
Job(pattern, agent_ids) ==
    [id |-> "agent_monitor_cron", trigger |-> pattern, args |-> agent_ids]

\* scheduler.add_job(..., id="agent_monitor_cron", replace_existing=True)
add_job(jobs, job) == SelectSeq(jobs, LAMBDA j : j.id # job.id) \o <<job>>

\* lines 202-231 of start_monitoring: arm the schedule if one was asked for
arm_schedule(pattern, agent_ids, enabled, active, jobs, running) ==
    IF pattern # NoPattern /\ enabled /\ ~active
    THEN IF valid_crontab(pattern)
         THEN [jobs |-> add_job(jobs, Job(pattern, agent_ids)), running |-> TRUE,
               outcome |-> "scheduled"]
         ELSE [jobs |-> jobs, running |-> running, outcome |-> "scheduling_error"]
    ELSE [jobs |-> jobs, running |-> running, outcome |-> "none"]

(***************************************************************************)
(* Lifecycle.                                                              *)
(***************************************************************************)
\* the set of the elements of a list
Range(seq) == {seq[i] : i \in 1 .. Len(seq)}

\* init_tracking without the `self.status_history[agent_id] = []` of line 198
init_tracking_without_history(st, agent_ids) ==
    LET ids == Range(agent_ids)
    IN [st EXCEPT
          !.agent_statuses =
              [a \in DOMAIN st.agent_statuses \cup ids |->
                  IF a \in ids THEN AgentStatusSnapshot(a, UNKNOWN, clock)
                  ELSE st.agent_statuses[a]],
          !.status_changes =
              [a \in DOMAIN st.status_changes \cup ids |->
                  IF a \in ids THEN << >> ELSE st.status_changes[a]]]

\* lines 190-199 of start_monitoring: (re)initialise the tracking of each agent
init_tracking(st, agent_ids) ==
    LET ids == Range(agent_ids)
    IN [st EXCEPT
          !.agent_statuses =
              [a \in DOMAIN st.agent_statuses \cup ids |->
                  IF a \in ids THEN AgentStatusSnapshot(a, UNKNOWN, clock)
                  ELSE st.agent_statuses[a]],
          !.status_history =
              [a \in DOMAIN st.status_history \cup ids |->
                  IF a \in ids THEN << >> ELSE st.status_history[a]],
          !.status_changes =
              [a \in DOMAIN st.status_changes \cup ids |->
                  IF a \in ids THEN << >> ELSE st.status_changes[a]]]

\* the dictionary start_monitoring returns
start_result(agent_ids, pattern, armed, changes) ==
    [status |-> "monitoring_started",
     agents |-> agent_ids,
     scheduled |-> armed.outcome = "scheduled",
     schedule_pattern |-> IF armed.outcome = "scheduled" THEN pattern ELSE NoPattern,
     scheduling_error |-> armed.outcome = "scheduling_error",
     initial_poll_changes |-> Len(changes)]

\* what the caller receives: the value itself, or the success envelope of
\* execute_skill (lines 608-611, 618-621, 627-630, 637-640) around it
Returns(value, via_skill) ==
    IF via_skill THEN [status |-> "success", data |-> value] ELSE value

\* start_monitoring(agent_ids, schedule_pattern), called directly or by
\* execute_skill
start_monitoring_call(agent_ids, pattern, files, fails, via_skill) ==
    LET st0 == init_tracking(monitor_state, agent_ids)
        armed == arm_schedule(pattern, agent_ids, enable_scheduling, polling_active,
                              sched_jobs, sched_running)
    IN \E st1 \in {poll_agents(st0, agent_ids, files, notification_channels, fails)} :
       /\ Store(st1)
       /\ sched_jobs' = armed.jobs
       /\ sched_running' = armed.running
       /\ returned' = st1.changes
       /\ observed' = st1.observed
       /\ result' = Returns(start_result(agent_ids, pattern, armed, st1.changes),
                            via_skill)
       /\ polling_active' = TRUE

\* start_monitoring(agent_ids, schedule_pattern)
start_monitoring(agent_ids, pattern, files, fails) ==
    start_monitoring_call(agent_ids, pattern, files, fails, FALSE)

\* no agent_id given (None)
NoAgent == ""

\* stop_monitoring(agent_id), called directly or by execute_skill
stop_monitoring_call(agent_id, via_skill) ==
    /\ IF enable_scheduling /\ sched_running /\ agent_id = NoAgent
       THEN /\ sched_running' = FALSE
            /\ sched_jobs' = << >>
            /\ polling_active' = FALSE
       ELSE UNCHANGED <<sched_running, sched_jobs, polling_active>>
    /\ result' = Returns([status |-> "monitoring_stopped", agent_id |-> agent_id],
                          via_skill)
    /\ UNCHANGED <<monitor_vars, notifications, returned, observed>>

\* stop_monitoring(agent_id)
stop_monitoring(agent_id) == stop_monitoring_call(agent_id, FALSE)

\* the scheduler runs job j: _poll_agents(j.args) on its worker thread
run_job(j, files, fails) ==
    \E st1 \in {poll_agents(monitor_state, j.args, files, notification_channels, fails)} :
       /\ Store(st1)
       /\ returned' = st1.changes
       /\ observed' = st1.observed
       /\ UNCHANGED <<sched_running, sched_jobs, polling_active, result>>

(***************************************************************************)
(* Control surface: the queries and execute_skill.                         *)
(***************************************************************************)
Min(a, b) == IF a <= b THEN a ELSE b

Max(a, b) == IF a >= b THEN a ELSE b

\* seq[start:] of a Python list: a negative start counts from the end, and
\* both ends are clamped to the list
SliceFrom(seq, start) ==
    LET n == Len(seq)
        from == IF start < 0 THEN Max(n + start, 0) ELSE Min(start, n)
    IN SubSeq(seq, from + 1, n)

\* a call that raised instead of returning
Raised(error_type) == [raised |-> error_type]

\* a Python list handed to the caller
ListValue(items) == [list |-> items]

\* lines 541-551 of get_agent_status: the dictionary for a monitored agent
\* (details, error and progress are carried along unread and left out)
agent_status_record(agent_id) ==
    IF agent_id \notin DOMAIN status_changes THEN Raised("KeyError")
    ELSE [agent_id |-> agent_id,
          current_status |-> agent_statuses[agent_id].status,
          last_updated |-> agent_statuses[agent_id].timestamp,
          recent_changes |-> SliceFrom(status_changes[agent_id], -5)]

\* get_agent_status without the test of line 535
get_agent_status_unguarded(agent_id) ==
    IF agent_id \notin DOMAIN agent_statuses THEN Raised("KeyError")
    ELSE agent_status_record(agent_id)

\* get_agent_status(agent_id)
get_agent_status(agent_id) ==
    IF agent_id \notin DOMAIN agent_statuses
    THEN [status |-> "error", message |-> <<"Agent", agent_id, "not being monitored">>]
    ELSE agent_status_record(agent_id)

\* get_status_history(agent_id, limit)
get_status_history(agent_id, limit) ==
    IF agent_id \notin DOMAIN status_history THEN << >>
    ELSE SliceFrom(status_history[agent_id], -limit)

\* dict.get(key, default)
Field(d, key, default) == IF key \in DOMAIN d THEN d[key] ELSE default

\* the actions execute_skill knows
KnownActions == {"start", "stop", "status", "history"}

\* skill_action with an unknown action taken for the default one
skill_action_defaulting(input_data) ==
    IF Lower(Field(input_data, "action", "start")) \in KnownActions
    THEN Lower(Field(input_data, "action", "start"))
    ELSE "start"

\* line 597 of execute_skill: the action, "start" when none is given
skill_action(input_data) == Lower(Field(input_data, "action", "start"))

\* a call that answers with value and changes nothing
Answer(value) ==
    /\ result' = value
    /\ UNCHANGED <<monitor_vars, notifications, returned, observed, polling_active,
                   sched_running, sched_jobs>>

\* the try/except of execute_skill around a query (lines 596, 649-661): what
\* the query raises comes back as an error result
Caught(value) ==
    IF "raised" \in DOMAIN value
    THEN [status |-> "error", error_type |-> value.raised]
    ELSE Returns(value, TRUE)

\* execute_skill(input_data)
execute_skill(input_data, files, fails) ==
    LET action == skill_action(input_data)
        agent_id == Field(input_data, "agent_id", NoAgent)
    IN CASE action = "start" ->
              start_monitoring_call(Field(input_data, "agent_ids", << >>),
                                    Field(input_data, "schedule_pattern", NoPattern),
                                    files, fails, TRUE)
         [] action = "stop" -> stop_monitoring_call(agent_id, TRUE)
         [] action = "status" -> Answer(Caught(get_agent_status(agent_id)))
         [] action = "history" ->
              Answer(Caught(ListValue(
                  get_status_history(agent_id, Field(input_data, "limit", 100)))))
         [] OTHER ->
              Answer([status |-> "error", error |-> <<"Unknown action", action>>,
                      available_actions |-> <<"start", "stop", "status", "history">>])

(***************************************************************************)
(* Inputs of a specification: the agent_ids lists and schedule patterns    *)
(* handed to start_monitoring, the agent_id handed to stop_monitoring and  *)
(* what the status source offers for each agent.                           *)
(***************************************************************************)
AllFiles(agent_id) ==
    {NoFile, BadFile} \cup {DataFile(agent_id, s) : s \in FileStatuses}

\* the poll engine and the dispatcher at work on one agent; a second agent
\* joins with a status source that reports one status
PollInputs ==
    [lists |-> {<<"a1">>, <<"a1", "a2">>},
     patterns |-> {NoPattern, EveryMinute},
     stops |-> {NoAgent},
     files |-> [a \in AgentIds |->
                  IF a = "a1" THEN AllFiles(a) ELSE {DataFile(a, "running")}]]

\* the lifecycle at work: every schedule pattern, stop with and without an
\* agent_id, a status source that reports one status
LifeInputs ==
    [lists |-> {<<"a1">>, <<"a1", "a2">>},
     patterns |-> SchedulePatterns,
     stops |-> {NoAgent, "a1"},
     files |-> [a \in AgentIds |->
                  IF a = "a1" THEN {NoFile, DataFile(a, "running")}
                  ELSE {DataFile(a, "running")}]]

(***************************************************************************)
(* The handlers as atomic actions.                                         *)
(***************************************************************************)
Init ==
    /\ notification_channels \in ChannelConfigs
    /\ failing \in {f \in FailingSets :
                      f \subseteq {Lower(c) : c \in Range(notification_channels)}}
    /\ enable_scheduling \in BOOLEAN
    /\ environ = DefaultEnviron
    /\ clock = 0
    /\ agent_statuses = << >>
    /\ status_history = << >>
    /\ status_changes = << >>
    /\ last_poll_time = {}
    /\ alert_cache = {}
    /\ polling_active = FALSE
    /\ sched_running = FALSE
    /\ sched_jobs = << >>
    /\ notifications = << >>
    /\ result = [status |-> "none"]
    /\ returned = << >>
    /\ observed = << >>
    /\ pc = [t \in Threads |-> "idle"]
    /\ frame = [t \in Threads |-> None]

StartMonitoring(in) ==
    \E agent_ids \in in.lists, pattern \in in.patterns :
        \E files \in FilesFor(agent_ids, in.files) :
            /\ start_monitoring(agent_ids, pattern, files, failing)
            /\ UNCHANGED <<notification_channels, failing, environ, clock, enable_scheduling, pc, frame>>

StopMonitoring(in) ==
    \E agent_id \in in.stops :
        /\ stop_monitoring(agent_id)
        /\ UNCHANGED <<notification_channels, failing, environ, clock, enable_scheduling, pc, frame>>

ScheduledPoll(in) ==
    /\ sched_running
    /\ \E k \in 1 .. Len(sched_jobs) :
        /\ RoomFor(status_history, sched_jobs[k].args)
        /\ \E files \in FilesFor(sched_jobs[k].args, in.files) :
              run_job(sched_jobs[k], files, failing)
    /\ UNCHANGED <<notification_channels, failing, environ, clock, enable_scheduling, pc, frame>>

Next ==
    \/ StartMonitoring(PollInputs)
    \/ StopMonitoring(PollInputs)
    \/ ScheduledPoll(PollInputs)

Spec == Init /\ [][Next]_vars

\* the constructor called with the default channel
LifeInit == Init /\ notification_channels = <<"log">>

LifeNext ==
    \/ StartMonitoring(LifeInputs)
    \/ StopMonitoring(LifeInputs)
    \/ ScheduledPoll(LifeInputs)

LifeSpec == LifeInit /\ [][LifeNext]_vars

(***************************************************************************)
(* ConcSpec: the caller's thread runs start_monitoring and stop_monitoring *)
(* statement by statement while the scheduler's worker thread runs the     *)
(* job. A thread is "idle" or at one of: "arm" (line 202), "fetch" (line   *)
(* 255), "detect" (line 259), "record" (line 274), "update" (line 282),    *)
(* "return" (line 294), "shutdown" (inside scheduler.shutdown, line 573).  *)
(* returned is written when a poll returns; observed is not kept here.     *)
(***************************************************************************)
ConcInputs ==
    [lists |-> {<<"a1">>},
     patterns |-> {NoPattern, EveryMinute},
     stops |-> {NoAgent, "a1"},
     files |-> [a \in AgentIds |->
                  IF a = "a1" THEN {NoFile, DataFile(a, "running")}
                  ELSE {DataFile(a, "running")}]]

\* the locals of a call that polls agent_ids
Frame(call, agent_ids, pattern) ==
    [call |-> call, agent_ids |-> agent_ids, schedule_pattern |-> pattern,
     outcome |-> "none", i |-> 1, current_status |-> None,
     previous_status |-> None, change |-> None, changes |-> << >>]

\* the monitor state with the changes list of thread t's poll
StateOf(t) == [monitor_state EXCEPT !.changes = frame[t].changes]

\* AfterAgent with the loop left once the scheduler has been shut down
AfterAgent_stopped(f) ==
    IF ~sched_running \/ f.i + 1 > Len(f.agent_ids) THEN "return" ELSE "fetch"

\* where a poll goes after the agent at position i
AfterAgent(f) == IF f.i + 1 > Len(f.agent_ids) THEN "return" ELSE "fetch"

\* where a poll of agent_ids starts
FirstStep(agent_ids) == IF Len(agent_ids) = 0 THEN "return" ELSE "fetch"

\* start_monitoring, lines 178-199: the result skeleton and the tracking
CStartInit(in) ==
    /\ pc["caller"] = "idle"
    /\ \E agent_ids \in in.lists, pattern \in in.patterns :
          /\ Store(init_tracking(monitor_state, agent_ids))
          /\ frame' = [frame EXCEPT !["caller"] =
                          Frame("start_monitoring", agent_ids, pattern)]
    /\ pc' = [pc EXCEPT !["caller"] = "arm"]
    /\ UNCHANGED <<notification_channels, failing, environ, clock, enable_scheduling, polling_active,
                   sched_running, sched_jobs, result, returned, observed>>

\* start_monitoring, lines 202-231: the schedule
CStartArm ==
    /\ pc["caller"] = "arm"
    /\ LET f == frame["caller"]
           armed == arm_schedule(f.schedule_pattern, f.agent_ids, enable_scheduling,
                                 polling_active, sched_jobs, sched_running)
       IN /\ sched_jobs' = armed.jobs
          /\ sched_running' = armed.running
          /\ frame' = [frame EXCEPT !["caller"].outcome = armed.outcome]
          /\ pc' = [pc EXCEPT !["caller"] = FirstStep(f.agent_ids)]
    /\ UNCHANGED <<notification_channels, failing, environ, clock, enable_scheduling, polling_active,
                   monitor_vars, notifications, result, returned, observed>>

\* _poll_agents, lines 255-256: fetch the status, read the last known one
PollFetch(t, in) ==
    /\ pc[t] = "fetch"
    /\ LET agent_id == frame[t].agent_ids[frame[t].i]
       IN \E file \in in.files[agent_id] :
             frame' = [frame EXCEPT
                         ![t].current_status =
                             fetch_agent_status(agent_statuses, agent_id, file),
                         ![t].previous_status = Get(agent_statuses, agent_id)]
    /\ pc' = [pc EXCEPT ![t] = "detect"]
    /\ UNCHANGED <<notification_channels, failing, environ, clock, enable_scheduling, polling_active,
                   sched_running, sched_jobs, monitor_vars, notifications, result,
                   returned, observed>>

\* _poll_agents, lines 259-273: build the change, look its hash up
PollDetect(t) ==
    /\ pc[t] = "detect"
    /\ LET f == frame[t]
           change == StatusChange(f.agent_ids[f.i], f.previous_status.status,
                                  f.current_status.status)
       IN IF status_differs(f.previous_status, f.current_status)
          THEN /\ frame' = [frame EXCEPT ![t].change = change]
               /\ pc' = [pc EXCEPT ![t] = IF is_novel(alert_cache, change)
                                          THEN "record" ELSE "update"]
          ELSE /\ frame' = frame
               /\ pc' = [pc EXCEPT ![t] = "update"]
    /\ UNCHANGED <<notification_channels, failing, environ, clock, enable_scheduling, polling_active,
                   sched_running, sched_jobs, monitor_vars, notifications, result,
                   returned, observed>>

\* _poll_agents, lines 274-279: record, remember, dispatch
PollRecord(t) ==
    /\ pc[t] = "record"
    /\ \E st1 \in {record_change(StateOf(t), frame[t].change, notification_channels,
                                 failing)} :
          /\ Store(st1)
          /\ frame' = [frame EXCEPT ![t].changes = st1.changes]
    /\ pc' = [pc EXCEPT ![t] = "update"]
    /\ UNCHANGED <<notification_channels, failing, environ, clock, enable_scheduling, polling_active,
                   sched_running, sched_jobs, result, returned, observed>>

\* _poll_agents, lines 282-284: the snapshot becomes current
PollUpdate(t) ==
    /\ pc[t] = "update"
    /\ Store(update_status(StateOf(t), frame[t].agent_ids[frame[t].i],
                           frame[t].current_status))
    /\ frame' = [frame EXCEPT ![t].i = @ + 1]
    /\ pc' = [pc EXCEPT ![t] = AfterAgent(frame[t])]
    /\ UNCHANGED <<notification_channels, failing, environ, clock, enable_scheduling, polling_active,
                   sched_running, sched_jobs, result, returned, observed>>

\* start_monitoring, lines 234-239: the poll has returned
CStartReturn ==
    /\ pc["caller"] = "return"
    /\ LET f == frame["caller"]
       IN /\ returned' = f.changes
          /\ result' = start_result(f.agent_ids, f.schedule_pattern,
                                    [outcome |-> f.outcome], f.changes)
    /\ polling_active' = TRUE
    /\ pc' = [pc EXCEPT !["caller"] = "idle"]
    /\ frame' = [frame EXCEPT !["caller"] = None]
    /\ UNCHANGED <<notification_channels, failing, environ, clock, enable_scheduling, sched_running,
                   sched_jobs, monitor_vars, notifications, observed>>

\* the scheduler fires the job; it runs one instance of a job at a time
JobFire ==
    /\ pc["worker"] = "idle"
    /\ sched_running
    /\ \E k \in 1 .. Len(sched_jobs) :
          /\ RoomFor(status_history, sched_jobs[k].args)
          /\ frame' = [frame EXCEPT !["worker"] =
                          Frame("job", sched_jobs[k].args, sched_jobs[k].trigger)]
          /\ pc' = [pc EXCEPT !["worker"] = FirstStep(sched_jobs[k].args)]
    /\ UNCHANGED <<notification_channels, failing, environ, clock, enable_scheduling, polling_active,
                   sched_running, sched_jobs, monitor_vars, notifications, result,
                   returned, observed>>

\* the job's _poll_agents returns
JobReturn ==
    /\ pc["worker"] = "return"
    /\ returned' = frame["worker"].changes
    /\ pc' = [pc EXCEPT !["worker"] = "idle"]
    /\ frame' = [frame EXCEPT !["worker"] = None]
    /\ UNCHANGED <<notification_channels, failing, environ, clock, enable_scheduling, polling_active,
                   sched_running, sched_jobs, monitor_vars, notifications, result,
                   observed>>

\* stop_monitoring, lines 568-573: scheduler.shutdown() stops the scheduler and
\* then waits for the running job; with an agent_id the call only logs
CStop(in) ==
    /\ pc["caller"] = "idle"
    /\ \E agent_id \in in.stops :
          IF enable_scheduling /\ sched_running /\ agent_id = NoAgent
          THEN /\ sched_running' = FALSE
               /\ pc' = [pc EXCEPT !["caller"] = "shutdown"]
               /\ frame' = [frame EXCEPT !["caller"] =
                               [call |-> "stop_monitoring", agent_id |-> agent_id]]
               /\ result' = result
          ELSE /\ result' = [status |-> "monitoring_stopped", agent_id |-> agent_id]
               /\ UNCHANGED <<sched_running, pc, frame>>
    /\ UNCHANGED <<notification_channels, failing, environ, clock, enable_scheduling, polling_active,
                   sched_jobs, monitor_vars, notifications, returned, observed>>

\* stop_monitoring, lines 573-580: shutdown returns once the job has finished
CStopJoin ==
    /\ pc["caller"] = "shutdown"
    /\ pc["worker"] = "idle"
    /\ sched_jobs' = << >>
    /\ polling_active' = FALSE
    /\ result' = [status |-> "monitoring_stopped",
                  agent_id |-> frame["caller"].agent_id]
    /\ pc' = [pc EXCEPT !["caller"] = "idle"]
    /\ frame' = [frame EXCEPT !["caller"] = None]
    /\ UNCHANGED <<notification_channels, failing, environ, clock, enable_scheduling, sched_running,
                   monitor_vars, notifications, returned, observed>>

ConcNext ==
    \/ CStartInit(ConcInputs)
    \/ CStartArm
    \/ \E t \in Threads : PollFetch(t, ConcInputs)
    \/ \E t \in Threads : PollDetect(t)
    \/ \E t \in Threads : PollRecord(t)
    \/ \E t \in Threads : PollUpdate(t)
    \/ CStartReturn
    \/ JobFire
    \/ JobReturn
    \/ CStop(ConcInputs)
    \/ CStopJoin

ConcSpec == LifeInit /\ [][ConcNext]_vars

(***************************************************************************)
(* QuerySpec: the handlers as atomic actions together with the queries and *)
(* execute_skill, on one agent; "ghost" is an agent_id no call registers.  *)
(***************************************************************************)
QueryInputs ==
    [lists |-> {<< >>, <<"a1">>},
     patterns |-> {NoPattern, EveryMinute},
     stops |-> {NoAgent},
     files |-> [a \in AgentIds |->
                  IF a = "a1" THEN {NoFile, DataFile(a, "running")}
                  ELSE {DataFile(a, "running")}],
     queried |-> {"a1", "ghost"},
     limits |-> {0, 1, 2},
     skill_inputs |->
        {[action |-> "start"],
         [action |-> "START", agent_ids |-> <<"a1">>],
         [agent_ids |-> <<"a1">>, schedule_pattern |-> EveryMinute],
         [action |-> "stop"],
         [action |-> "status", agent_id |-> "a1"],
         [action |-> "status", agent_id |-> "ghost"],
         [action |-> "status"],
         [action |-> "history", agent_id |-> "a1"],
         [action |-> "history", agent_id |-> "ghost", limit |-> 1],
         [action |-> "restart", agent_ids |-> <<"a1">>]}]

GetAgentStatus(in) ==
    \E agent_id \in in.queried :
        /\ Answer(get_agent_status(agent_id))
        /\ UNCHANGED <<notification_channels, failing, environ, clock, enable_scheduling, pc, frame>>

GetStatusHistory(in) ==
    \E agent_id \in in.queried, limit \in in.limits :
        /\ Answer(ListValue(get_status_history(agent_id, limit)))
        /\ UNCHANGED <<notification_channels, failing, environ, clock, enable_scheduling, pc, frame>>

ExecuteSkill(in) ==
    \E input_data \in in.skill_inputs :
        \E files \in FilesFor(Field(input_data, "agent_ids", << >>), in.files) :
            /\ execute_skill(input_data, files, failing)
            /\ UNCHANGED <<notification_channels, failing, environ, clock, enable_scheduling, pc,
                           frame>>

QueryNext ==
    \/ StartMonitoring(QueryInputs)
    \/ StopMonitoring(QueryInputs)
    \/ ScheduledPoll(QueryInputs)
    \/ GetAgentStatus(QueryInputs)
    \/ GetStatusHistory(QueryInputs)
    \/ ExecuteSkill(QueryInputs)

QuerySpec == LifeInit /\ [][QueryNext]_vars

(***************************************************************************)
(* TimeSpec: the handlers as atomic actions while time passes. A status    *)
(* file carries the timestamp its writer gave it, an instant up to now.    *)
(***************************************************************************)
TimeInputs ==
    [lists |-> {<<"a1">>},
     patterns |-> {NoPattern, EveryMinute},
     stops |-> {NoAgent},
     files |-> [a \in AgentIds |->
                  {BadFile} \cup {TimedFile(a, "running", t) : t \in 0 .. clock}]]

\* time passes between two calls
Tick ==
    /\ clock < MaxTime
    /\ clock' = clock + 1
    /\ UNCHANGED <<notification_channels, failing, environ, enable_scheduling, monitor_vars,
                   polling_active, sched_running, sched_jobs, notifications, result,
                   returned, observed, pc, frame>>

TimeNext ==
    \/ StartMonitoring(TimeInputs)
    \/ ScheduledPoll(TimeInputs)
    \/ Tick

TimeSpec == LifeInit /\ [][TimeNext]_vars

(***************************************************************************)
(* RaceSpec: start_monitoring runs on the caller's thread statement by     *)
(* statement, the tracking loop of lines 190-199 included ("init_status"   *)
(* is line 191, "init_history" line 198, "init_changes" line 199), while   *)
(* another thread of the process calls get_agent_status and                *)
(* get_status_history.                                                     *)
(***************************************************************************)
RaceInputs ==
    [lists |-> {<<"a1">>, <<"a1", "a2">>},
     patterns |-> {NoPattern},
     stops |-> {},
     files |-> [a \in AgentIds |-> {DataFile(a, "running")}],
     queried |-> {"a1", "a2"},
     limits |-> {1}]

\* start_monitoring, lines 178-190: the result skeleton, the loop entered
RStart(in) ==
    /\ pc["caller"] = "idle"
    /\ \E agent_ids \in in.lists, pattern \in in.patterns :
          frame' = [frame EXCEPT !["caller"] =
                      Frame("start_monitoring", agent_ids, pattern)]
    /\ pc' = [pc EXCEPT !["caller"] = "init_status"]
    /\ UNCHANGED <<notification_channels, failing, environ, clock, enable_scheduling,
                   polling_active, sched_running, sched_jobs, monitor_vars,
                   notifications, result, returned, observed>>

\* line 191: self.agent_statuses[agent_id] = AgentStatusSnapshot(...)
RInitStatus ==
    /\ pc["caller"] = "init_status"
    /\ LET agent_id == frame["caller"].agent_ids[frame["caller"].i]
       IN agent_statuses' =
              Put(agent_statuses, agent_id, AgentStatusSnapshot(agent_id, UNKNOWN, clock))
    /\ pc' = [pc EXCEPT !["caller"] = "init_history"]
    /\ UNCHANGED <<notification_channels, failing, environ, clock, enable_scheduling,
                   polling_active, sched_running, sched_jobs, status_history,
                   status_changes, last_poll_time, alert_cache, notifications, result,
                   returned, observed, frame>>

\* line 198: self.status_history[agent_id] = []
RInitHistory ==
    /\ pc["caller"] = "init_history"
    /\ status_history' =
          Put(status_history, frame["caller"].agent_ids[frame["caller"].i], << >>)
    /\ pc' = [pc EXCEPT !["caller"] = "init_changes"]
    /\ UNCHANGED <<notification_channels, failing, environ, clock, enable_scheduling,
                   polling_active, sched_running, sched_jobs, agent_statuses,
                   status_changes, last_poll_time, alert_cache, notifications, result,
                   returned, observed, frame>>

\* line 199: self.status_changes[agent_id] = [], and the loop goes on
RInitChanges ==
    /\ pc["caller"] = "init_changes"
    /\ LET f == frame["caller"]
       IN /\ status_changes' = Put(status_changes, f.agent_ids[f.i], << >>)
          /\ IF f.i + 1 > Len(f.agent_ids)
             THEN /\ frame' = [frame EXCEPT !["caller"].i = 1]
                  /\ pc' = [pc EXCEPT !["caller"] = "arm"]
             ELSE /\ frame' = [frame EXCEPT !["caller"].i = f.i + 1]
                  /\ pc' = [pc EXCEPT !["caller"] = "init_status"]
    /\ UNCHANGED <<notification_channels, failing, environ, clock, enable_scheduling,
                   polling_active, sched_running, sched_jobs, agent_statuses,
                   status_history, last_poll_time, alert_cache, notifications, result,
                   returned, observed>>

RaceNext ==
    \/ RStart(RaceInputs)
    \/ RInitStatus
    \/ RInitHistory
    \/ RInitChanges
    \/ CStartArm
    \/ PollFetch("caller", RaceInputs)
    \/ PollDetect("caller")
    \/ PollRecord("caller")
    \/ PollUpdate("caller")
    \/ CStartReturn
    \/ GetAgentStatus(RaceInputs)
    \/ GetStatusHistory(RaceInputs)

RaceSpec == LifeInit /\ [][RaceNext]_vars

(***************************************************************************)
(* StopSpec: the threads of ConcSpec on a job that polls two agents, with  *)
(* the worker thread of the scheduler's pool scheduled fairly: a job that  *)
(* has been submitted to the pool keeps running.                           *)
(***************************************************************************)
StopInputs ==
    [lists |-> {<<"a1", "a2">>},
     patterns |-> {EveryMinute},
     stops |-> {NoAgent},
     files |-> [a \in AgentIds |-> {DataFile(a, "running")}]]

\* a step of the job on the worker thread
WorkerStep ==
    \/ PollFetch("worker", StopInputs)
    \/ PollDetect("worker")
    \/ PollRecord("worker")
    \/ PollUpdate("worker")
    \/ JobReturn

StopNext ==
    \/ CStartInit(StopInputs)
    \/ CStartArm
    \/ \E t \in Threads : PollFetch(t, StopInputs)
    \/ \E t \in Threads : PollDetect(t)
    \/ \E t \in Threads : PollRecord(t)
    \/ \E t \in Threads : PollUpdate(t)
    \/ CStartReturn
    \/ JobFire
    \/ JobReturn
    \/ CStop(StopInputs)
    \/ CStopJoin

StopSpec == LifeInit /\ [][StopNext]_vars /\ WF_vars(WorkerStep)

(***************************************************************************)
(* NotifySpec: the poll engine of one agent with the dispatcher on a       *)
(* network channel, under every environment of Environs.                   *)
(***************************************************************************)
NotifyInputs ==
    [lists |-> {<<"a1">>},
     patterns |-> {EveryMinute},
     stops |-> {},
     files |-> [a \in AgentIds |-> {DataFile(a, s) : s \in FileStatuses}]]

\* the constructor called with a network channel ahead of the log channel
NotifyInit ==
    /\ notification_channels \in {<<"webhook", "log">>, <<"slack", "log">>}
    /\ failing \in SUBSET {notification_channels[1]}
    /\ enable_scheduling = TRUE
    /\ environ \in Environs
    /\ clock = 0
    /\ agent_statuses = << >>
    /\ status_history = << >>
    /\ status_changes = << >>
    /\ last_poll_time = {}
    /\ alert_cache = {}
    /\ polling_active = FALSE
    /\ sched_running = FALSE
    /\ sched_jobs = << >>
    /\ notifications = << >>
    /\ result = [status |-> "none"]
    /\ returned = << >>
    /\ observed = << >>
    /\ pc = [t \in Threads |-> "idle"]
    /\ frame = [t \in Threads |-> None]

NotifyNext ==
    \/ StartMonitoring(NotifyInputs)
    \/ ScheduledPoll(NotifyInputs)

NotifySpec == NotifyInit /\ [][NotifyNext]_vars

(***************************************************************************)
(* Claims on the poll engine and the dispatcher (Spec).                    *)
(***************************************************************************)
\* the fingerprint triple of a change
Triple(c) == <<c.agent_id, c.previous_status, c.new_status>>

\* the entries of the notification multiset
Sent == DOMAIN notifications

\* position k of the last poll cycle produced (returned) a change
Produced(k) ==
    \E j \in 1 .. Len(returned) :
        Triple(returned[j]) =
            <<observed[k].agent_id, observed[k].previous_status, observed[k].status>>

\* position k of the last poll cycle fetched a status that differs from the
\* status of the agent's preceding snapshot
Differs(k) == observed[k].status # observed[k].previous_status

\* C1: over any sequence of poll cycles, start_monitoring and stop_monitoring
\* calls, _send_notifications is called at most once per fingerprint
\* (agent_id, previous_status, new_status); a transition whose fingerprint is
\* in the dedup cache is discarded, also when it recurs after another one.
C1_OneDispatchPerFingerprint ==
    /\ \A n \in Sent : notifications[n] = 1
    /\ \A n, m \in Sent : Triple(n.change) = Triple(m.change) => n = m
    /\ \A k \in 1 .. Len(observed) : observed[k].cached => ~Produced(k)

\* C1 witness: unknown -> running recurs for a1 after running -> failed was
\* dispatched in between, is found in the cache and is discarded
C1_Witness ==
    /\ \E k \in 1 .. Len(observed) :
          /\ observed[k].cached
          /\ observed[k].agent_id = "a1"
          /\ observed[k].previous_status = UNKNOWN
          /\ observed[k].status = "running"
    /\ \E n, m \in Sent :
          /\ Triple(n.change) = <<"a1", UNKNOWN, "running">>
          /\ Triple(m.change) = <<"a1", "running", "failed">>

\* C2, as claimed: a poll cycle produces a StatusChange for an agent if and
\* only if the fetched status differs from the status of the agent's
\* preceding snapshot.
C2_ChangeIffDiffers ==
    \A k \in 1 .. Len(observed) : Produced(k) <=> Differs(k)

\* C2, amended: a poll cycle produces (records and returns) a StatusChange
\* for an agent if and only if the fetched status differs from the status of
\* the agent's preceding snapshot and the fingerprint of that transition is
\* not yet in the dedup cache.
C2_ChangeIffDiffersAndNovel ==
    /\ \A k \in 1 .. Len(observed) :
          Produced(k) <=> (Differs(k) /\ ~observed[k].cached)
    /\ \A j \in 1 .. Len(returned) :
          /\ returned[j].agent_id \in DOMAIN status_changes
          /\ \E i \in 1 .. Len(status_changes[returned[j].agent_id]) :
                status_changes[returned[j].agent_id][i] = returned[j]

\* C2 witness: one cycle polls a1 and a2; a1 went from running to failed and
\* a change was produced, a2 kept its status and none was
C2_Witness ==
    /\ Len(observed) = 2
    /\ observed[1].previous_status = "running"
    /\ observed[1].status = "failed"
    /\ Produced(1)
    /\ ~Differs(2)
    /\ ~Produced(2)

\* C10: for each novel StatusChange, _send_notifications attempts every
\* configured channel exactly once, in configured order; what one channel
\* raises is caught there, the remaining channels are attempted and the poll
\* cycle goes on to apply the snapshot.
C10_EveryChannelAttempted ==
    /\ \A n \in Sent :
          /\ Len(n.attempts) = Len(notification_channels)
          /\ \A i \in 1 .. Len(n.attempts) :
                /\ n.attempts[i].channel = notification_channels[i]
                /\ n.attempts[i].outcome \in {"ok", "failed", "raised"}
    /\ \A j \in 1 .. Len(returned) :
          /\ \E n \in Sent : n.change = returned[j]
          /\ (\A i \in j + 1 .. Len(returned) :
                 returned[i].agent_id # returned[j].agent_id)
                => agent_statuses[returned[j].agent_id].status = returned[j].new_status

\* C10 witness: a dispatch whose first channel (file) raised and whose later
\* channels were attempted, the last one with success
C10_Witness ==
    \E n \in Sent :
        /\ Len(n.attempts) = 3
        /\ n.attempts[1].outcome = "raised"
        /\ n.attempts[2].outcome = "failed"
        /\ n.attempts[3].outcome = "ok"
        /\ agent_statuses[n.change.agent_id].status = n.change.new_status

\* C11: the log channel writes the alert at WARNING level when the new status
\* of the change is failed or timeout (the values the poll engine produces)
\* and at INFO level for every other new status.
C11_LogLevelBySeverity ==
    \A n \in Sent :
        \A i \in 1 .. Len(n.attempts) :
            Lower(n.attempts[i].channel) = "log" =>
                n.log_levels[i] = IF n.change.new_status \in {"failed", "timeout"}
                                  THEN "WARNING" ELSE "INFO"

(***************************************************************************)
(* Claims on the lifecycle (LifeSpec).                                     *)
(***************************************************************************)
\* list s is a prefix of list t
IsPrefix(s, t) == Len(s) <= Len(t) /\ SubSeq(t, 1, Len(s)) = s

\* the step is the call start_monitoring(agent_ids, pattern)
StartCall(agent_ids, pattern) ==
    \E files \in FilesFor(agent_ids, LifeInputs.files) :
        /\ start_monitoring(agent_ids, pattern, files, failing)
        /\ UNCHANGED <<notification_channels, failing, environ, clock, enable_scheduling, pc, frame>>

\* the step is a call of start_monitoring with a valid schedule
StartCallScheduled ==
    \E agent_ids \in LifeInputs.lists, pattern \in {EveryMinute, Hourly} :
        StartCall(agent_ids, pattern)

\* C3: start_monitoring called again on a monitor that is Monitoring, with a
\* list that overlaps the monitored set, leaves the history entries and the
\* recorded changes that every monitored agent had before the call in place
\* (the call's own poll may append to them).
C3_RestartKeepsState ==
    [][(polling_active /\ StartMonitoring(LifeInputs)) =>
          \A a \in DOMAIN agent_statuses :
              /\ IsPrefix(status_history[a], status_history'[a])
              /\ IsPrefix(status_changes[a], status_changes'[a])]_vars

\* C4: once stop_monitoring has returned, with or without an agent_id, no
\* scheduler-fired poll cycle starts and Monitor State is not mutated until
\* start_monitoring is called.
C4_StoppedIsQuiet ==
    [][result.status = "monitoring_stopped" =>
          \/ UNCHANGED monitor_vars
          \/ StartMonitoring(LifeInputs)]_vars

\* C5: after stop_monitoring(), a start_monitoring with a valid schedule on a
\* monitor that has a scheduler arms the scheduler again, whatever the
\* earlier calls were.
C5_RestartArms ==
    [][(/\ result.status = "monitoring_stopped"
        /\ result.agent_id = NoAgent
        /\ enable_scheduling
        /\ StartCallScheduled)
          => (sched_running' /\ Len(sched_jobs') = 1 /\ polling_active')]_vars

\* C8: start_monitoring with a schedule while a schedule is armed replaces
\* it: afterwards exactly one job exists, with the cron pattern and the agent
\* list of the latest call.
C8_ScheduleReplaced ==
    [][\A agent_ids \in LifeInputs.lists, pattern \in {EveryMinute, Hourly} :
          (sched_running /\ Len(sched_jobs) > 0 /\ StartCall(agent_ids, pattern))
              => sched_jobs' = <<Job(pattern, agent_ids)>>]_vars

\* C9: when monitoring was started with scheduling enabled and no cron
\* pattern was armed (fixed-interval mode), the scheduler is running with a
\* job that invokes the poll engine again, until stop_monitoring is called.
C9_IntervalModePolls ==
    (/\ enable_scheduling
     /\ result.status = "monitoring_started"
     /\ ~result.scheduled
     /\ ~result.scheduling_error)
        => (sched_running /\ Len(sched_jobs) > 0)

\* C17: when the schedule cannot be armed because the cron pattern is
\* invalid, start_monitoring on a monitor that has a scheduler returns a
\* result that carries the scheduling error as a field, and it still
\* initialises the agents and runs the initial poll cycle.
C17_SchedulingErrorSurfaced ==
    [][\A agent_ids \in LifeInputs.lists :
          (enable_scheduling /\ StartCall(agent_ids, BadPattern)) =>
              /\ result'.status = "monitoring_started"
              /\ result'.scheduling_error
              /\ \A a \in Range(agent_ids) :
                    /\ a \in DOMAIN agent_statuses'
                    /\ Len(status_history'[a]) >= 1]_vars

\* start_monitoring has returned without arming a schedule, agent a of its
\* list is at status Unknown after the initial poll, and the step is a poll
\* cycle in which the status source reports a status other than Unknown for a
UnknownThenReported(a) ==
    /\ result.status = "monitoring_started"
    /\ ~result.scheduled
    /\ a \in Range(result.agents)
    /\ agent_statuses[a].status = UNKNOWN
    /\ Len(status_history[a]) = 1
    /\ status_changes[a] = << >>
    /\ UNCHANGED <<result, polling_active, sched_running, sched_jobs>>
    /\ ScheduledPoll(LifeInputs)
    /\ \E k \in 1 .. Len(observed') :
          observed'[k].agent_id = a /\ observed'[k].status # UNKNOWN

\* get_agent_status(a), called after the step, returns the new status S as
\* current_status and one recent change, from unknown to S
OneChangeReported(a) ==
    LET r == get_agent_status(a)'
    IN /\ r.current_status = agent_statuses'[a].status
       /\ r.current_status # UNKNOWN
       /\ Len(r.recent_changes) = 1
       /\ r.recent_changes[1].previous_status = UNKNOWN
       /\ r.recent_changes[1].new_status = r.current_status

\* C20, as claimed: in any reachable state (first registration or
\* re-registration of an agent), if start_monitoring with no schedule leaves
\* agent a at status Unknown, the status source then reports a status S other
\* than Unknown and one poll cycle runs, then get_agent_status(a) returns
\* current_status = S and recent_changes of length 1 whose entry has
\* previous_status = unknown and new_status = S.
C20_FirstChangeReported ==
    [][\A a \in AgentIds : UnknownThenReported(a) => OneChangeReported(a)]_vars

\* C20, amended: the same, provided the fingerprint (a, unknown, S) is not in
\* the dedup cache when the poll cycle runs (no earlier registration of a has
\* alerted on unknown -> S).
C20_FirstNovelChangeReported ==
    [][\A a \in AgentIds :
          (/\ UnknownThenReported(a)
           /\ change_hash(a, UNKNOWN, agent_statuses'[a].status) \notin alert_cache)
              => OneChangeReported(a)]_vars

\* C20 witness: after a start_monitoring that armed no schedule left a1 at
\* Unknown, a poll cycle saw a1 running; get_agent_status("a1") reports
\* running and the one change unknown -> running
C20_Witness ==
    /\ result.status = "monitoring_started"
    /\ ~result.scheduled
    /\ "a1" \in Range(result.agents)
    /\ Len(status_history["a1"]) = 2
    /\ status_history["a1"][1].status = UNKNOWN
    /\ Len(observed) >= 1
    /\ observed[1] = [agent_id |-> "a1", previous_status |-> UNKNOWN,
                      status |-> "running", cached |-> FALSE]
    /\ get_agent_status("a1").current_status = "running"
    /\ Len(get_agent_status("a1").recent_changes) = 1
    /\ get_agent_status("a1").recent_changes[1].previous_status = UNKNOWN

(***************************************************************************)
(* Claims on the history (Spec).                                           *)
(***************************************************************************)
\* every list of before is a prefix of the list after has for the same agent
AllPrefixes(before, after) ==
    \A a \in DOMAIN before :
        a \in DOMAIN after /\ IsPrefix(before[a], after[a])

\* the step is a call of start_monitoring(agent_ids, ...) of Spec (the call
\* returns its agent list, which is tested first)
PollStartCall(agent_ids) ==
    /\ "agents" \in DOMAIN result'
    /\ result'.agents = agent_ids
    /\ \E pattern \in PollInputs.patterns :
          \E files \in FilesFor(agent_ids, PollInputs.files) :
              /\ start_monitoring(agent_ids, pattern, files, failing)
              /\ UNCHANGED <<notification_channels, failing, environ, clock, enable_scheduling,
                             pc, frame>>

\* the step is a poll cycle fired by the scheduler (a cycle returns nothing
\* to the caller, leaves the lifecycle alone and compares the first agent it
\* polls with the status the agent had, which is tested first)
PollCycle ==
    /\ UNCHANGED <<result, polling_active, sched_running, sched_jobs>>
    /\ Len(observed') >= 1 =>
          /\ observed'[1].agent_id \in DOMAIN agent_statuses
          /\ observed'[1].previous_status = agent_statuses[observed'[1].agent_id].status
    /\ ScheduledPoll(PollInputs)

\* C18: history is append-only across poll cycles: for every agent and every
\* poll cycle (fired by the scheduler, or the initial one of start_monitoring
\* that follows the initialisation of the tracking), the history before the
\* cycle is a prefix of the history after it, whether the fetch succeeded,
\* failed, or the change was deduplicated.
C18_HistoryAppendOnly ==
    [][/\ AllPrefixes(status_history, status_history') \/ ~PollCycle
       /\ \A agent_ids \in PollInputs.lists :
             \/ AllPrefixes(init_tracking(monitor_state, agent_ids).status_history,
                            status_history')
             \/ ~PollStartCall(agent_ids)]_vars

\* C18 witness: the last poll cycle met a change that was deduplicated and the
\* agent's history holds the snapshot of that cycle after an earlier one
C18_Witness ==
    \E k \in 1 .. Len(observed) :
        /\ observed[k].cached
        /\ observed[k].status # observed[k].previous_status
        /\ Len(status_history[observed[k].agent_id]) >= 2
        /\ status_history[observed[k].agent_id]
              [Len(status_history[observed[k].agent_id])].status = observed[k].status

(***************************************************************************)
(* Claims on the history (TimeSpec).                                       *)
(***************************************************************************)
\* C19: in every reachable state the snapshots in the history of an agent are
\* ordered by observation time: the timestamps of consecutive history entries
\* are non-decreasing, whatever snapshots the status source returns.
C19_HistoryOrderedByTime ==
    \A a \in DOMAIN status_history :
        \A i \in 1 .. Len(status_history[a]) - 1 :
            status_history[a][i].timestamp <= status_history[a][i + 1].timestamp

(***************************************************************************)
(* Claims on the control surface (QuerySpec).                              *)
(***************************************************************************)
\* r is an error result: a dictionary whose status is error
IsError(r) == "status" \in DOMAIN r /\ r.status = "error"

\* the last k entries of a list, in the order of the list
LastN(seq, k) == SubSeq(seq, Len(seq) - k + 1, Len(seq))

\* the agent_ids some start_monitoring call of QuerySpec registers
Registered ==
    UNION {Range(l) : l \in QueryInputs.lists}
        \cup UNION {Range(Field(i, "agent_ids", << >>)) : i \in QueryInputs.skill_inputs}

\* the queried agent_ids no call registers
NeverRegistered == QueryInputs.queried \ Registered

\* the step is the call get_agent_status(agent_id)
StatusCall(agent_id) ==
    /\ Answer(get_agent_status(agent_id))
    /\ UNCHANGED <<notification_channels, failing, environ, clock, enable_scheduling, pc, frame>>

\* the step is the call get_status_history(agent_id, limit)
HistoryCall(agent_id, limit) ==
    /\ Answer(ListValue(get_status_history(agent_id, limit)))
    /\ UNCHANGED <<notification_channels, failing, environ, clock, enable_scheduling, pc, frame>>

\* the step is the call execute_skill(input_data)
SkillCall(input_data) ==
    \E files \in FilesFor(Field(input_data, "agent_ids", << >>), QueryInputs.files) :
        /\ execute_skill(input_data, files, failing)
        /\ UNCHANGED <<notification_channels, failing, environ, clock, enable_scheduling, pc, frame>>

\* the step is the call start_monitoring(agent_ids, pattern) of QuerySpec
QueryStartCall(agent_ids, pattern) ==
    \E files \in FilesFor(agent_ids, QueryInputs.files) :
        /\ start_monitoring(agent_ids, pattern, files, failing)
        /\ UNCHANGED <<notification_channels, failing, environ, clock, enable_scheduling, pc, frame>>

\* C12: in every reachable state, get_agent_status(agent_id) for an agent_id
\* never registered through start_monitoring returns an error result
\* (status = error) as a value, does not raise, and leaves Monitor State
\* unchanged; no unregistered agent_id ever enters Monitor State.
C12_UnknownAgentStatusIsError ==
    [][\A agent_id \in NeverRegistered :
          /\ StatusCall(agent_id) => (IsError(result') /\ UNCHANGED monitor_vars)
          /\ agent_id \notin DOMAIN agent_statuses'
                 \cup DOMAIN status_history' \cup DOMAIN status_changes']_vars

\* C12 witness: get_agent_status("ghost") has answered with the error result
\* on a monitor that tracks a1 with two polls of history
C12_Witness ==
    /\ IsError(result)
    /\ result = get_agent_status("ghost")
    /\ "a1" \in DOMAIN agent_statuses
    /\ Len(status_history["a1"]) >= 2

\* C13: a history query (get_status_history, or execute_skill with action
\* history) that references an agent never registered returns an error
\* result as a value.
C13_UnknownAgentHistoryIsError ==
    [][\A agent_id \in NeverRegistered :
          /\ \A limit \in QueryInputs.limits :
                HistoryCall(agent_id, limit) => IsError(result')
          /\ \A input_data \in QueryInputs.skill_inputs :
                (/\ skill_action(input_data) = "history"
                 /\ Field(input_data, "agent_id", NoAgent) = agent_id
                 /\ SkillCall(input_data)) => IsError(result')]_vars

\* C14: for a registered agent with n history entries and m recorded
\* changes, get_status_history(agent_id, limit) returns exactly the last
\* min(limit, n) snapshots in append order for every limit >= 0 (none for
\* limit = 0), and recent_changes of get_agent_status is exactly the last
\* min(5, m) recorded changes in append order.
C14_LastEntriesReturned ==
    [][\A agent_id \in DOMAIN status_history :
          /\ \A limit \in QueryInputs.limits :
                HistoryCall(agent_id, limit) =>
                    result' = ListValue(LastN(status_history[agent_id],
                                              Min(limit, Len(status_history[agent_id]))))
          /\ StatusCall(agent_id) =>
                result'.recent_changes =
                    LastN(status_changes[agent_id], Min(5, Len(status_changes[agent_id])))]_vars

\* C15: start_monitoring called with an empty agent list, directly or through
\* execute_skill with action start and no agent_ids, hands the caller a
\* structured error result, not a monitoring_started result.
C15_EmptyListIsError ==
    [][/\ \A pattern \in QueryInputs.patterns :
             QueryStartCall(<< >>, pattern) => IsError(result')
       /\ \A input_data \in QueryInputs.skill_inputs :
             (/\ skill_action(input_data) = "start"
              /\ "agent_ids" \notin DOMAIN input_data
              /\ SkillCall(input_data)) => IsError(result')]_vars

\* what C16 promises of a step
RejectedUntouched ==
    /\ IsError(result')
    /\ UNCHANGED <<monitor_vars, polling_active, sched_running, sched_jobs>>

\* C16, as claimed: execute_skill with an action name outside {start, stop,
\* status, history} returns a structured error result (status = error) and
\* leaves Monitor State, the dedup cache, polling_active and the scheduler
\* unchanged.
C16_UnknownActionRejected ==
    [][\A input_data \in QueryInputs.skill_inputs :
          (/\ "action" \in DOMAIN input_data
           /\ input_data.action \notin KnownActions
           /\ SkillCall(input_data)) => RejectedUntouched]_vars

\* C16, amended: execute_skill with an action name whose lower-cased form is
\* outside {start, stop, status, history} returns a structured error result
\* (status = error) and leaves Monitor State, the dedup cache, polling_active
\* and the scheduler unchanged.
C16_UnknownLoweredActionRejected ==
    [][\A input_data \in QueryInputs.skill_inputs :
          (/\ "action" \in DOMAIN input_data
           /\ Lower(input_data.action) \notin KnownActions
           /\ SkillCall(input_data)) => RejectedUntouched]_vars

\* C16 witness: execute_skill with action "restart" has answered with the
\* error result on a monitor that is polling a1 on a schedule
C16_Witness ==
    /\ IsError(result)
    /\ "error" \in DOMAIN result
    /\ result.error = <<"Unknown action", "restart">>
    /\ polling_active
    /\ sched_running
    /\ "a1" \in DOMAIN agent_statuses

(***************************************************************************)
(* SourceSpec: as Spec, with a status source that supplies whatever a      *)
(* status file may hold: a status that is no AgentStatus value, a snapshot *)
(* that names another agent. The second agent's id contains a colon.       *)
(***************************************************************************)
SourceInputs ==
    [lists |-> {<<"a1", "a1:unknown">>},
     patterns |-> {EveryMinute},
     stops |-> {},
     files |-> [a \in AgentIds |->
                  IF a = "a1"
                  THEN {DataFile("a1", "running"), DataFile("a1", "running:failed"),
                        DataFile("a2", "running")}
                  ELSE {DataFile(a, s) : s \in FileStatuses}]]

SourceNext ==
    \/ StartMonitoring(SourceInputs)
    \/ ScheduledPoll(SourceInputs)

SourceSpec == LifeInit /\ [][SourceNext]_vars

(***************************************************************************)
(* OrderSpec: the threads of ConcSpec with time passing between their      *)
(* statements. The status source stamps the snapshot it hands out with the *)
(* instant of the fetch, so the timestamps of an agent's snapshots tell    *)
(* the order in which they were fetched.                                   *)
(***************************************************************************)
OrderInputs ==
    [lists |-> {<<"a1">>},
     patterns |-> {EveryMinute},
     stops |-> {},
     files |-> [a \in AgentIds |-> {DataFile(a, "running")}]]

OrderNext ==
    \/ CStartInit(OrderInputs)
    \/ CStartArm
    \/ \E t \in Threads : PollFetch(t, OrderInputs)
    \/ \E t \in Threads : PollDetect(t)
    \/ \E t \in Threads : PollRecord(t)
    \/ \E t \in Threads : PollUpdate(t)
    \/ CStartReturn
    \/ JobFire
    \/ JobReturn
    \/ Tick

OrderSpec == LifeInit /\ [][OrderNext]_vars

(***************************************************************************)
(* Claims on what a poll cycle leaves behind (Spec, LifeSpec).             *)
(***************************************************************************)
\* the last snapshot of an agent's history
LastSnapshot(a) == status_history[a][Len(status_history[a])]

\* C25: once a poll cycle has processed an agent, the agent's current status
\* is the snapshot the cycle fetched and that snapshot is the last entry of
\* its history, whether or not a change was detected and also when the
\* change was dropped as a duplicate
C25_FetchedSnapshotApplied ==
    \A k \in 1 .. Len(observed) :
        LET a == observed[k].agent_id
        IN /\ a \in DOMAIN agent_statuses
           /\ agent_statuses[a].status = observed[k].status
           /\ Len(status_history[a]) >= 1
           /\ LastSnapshot(a) = agent_statuses[a]

\* the last cycle fetched for some agent a status that differs from the one
\* before and whose change was dropped as a duplicate, and the status is now
\* current and in the history
C25_Witness ==
    \E k \in 1 .. Len(observed) :
        /\ Differs(k)
        /\ observed[k].cached
        /\ ~Produced(k)
        /\ agent_statuses[observed[k].agent_id].status = observed[k].status
        /\ LastSnapshot(observed[k].agent_id).status = observed[k].status

\* the change hashes an agent can have
HashesOf(a) ==
    {change_hash(a, p, n) : p, n \in FileStatuses \cup {UNKNOWN}}

\* the step left alone what is recorded for agent a: its changes list, its
\* hashes in the dedup cache, the dispatches made for it
NothingRecordedFor(a) ==
    /\ status_changes'[a] = status_changes[a]
    /\ (alert_cache' \ alert_cache) \cap HashesOf(a) = {}
    /\ \A n \in DOMAIN notifications' :
          n.change.agent_id = a =>
              n \in DOMAIN notifications /\ notifications'[n] = notifications[n]
    /\ \A j \in 1 .. Len(returned') : returned'[j].agent_id # a

\* C26: a poll cycle that fetches for an agent a status equal to its current
\* status records no StatusChange for it, dispatches nothing for it and
\* leaves its changes list and its entries of the dedup cache as they were
C26_SameStatusChangesNothing ==
    [][\A k \in 1 .. Len(observed') :
          \/ observed'[k].status # observed'[k].previous_status
          \/ observed'[k].agent_id \in DOMAIN status_changes
                /\ NothingRecordedFor(observed'[k].agent_id)
          \/ ~PollCycle]_vars

\* three cycles saw a1 running, failed and failed again: the second failed
\* is the status a1 already had, and there is one change running -> failed
\* with one dispatch
C26_Witness ==
    /\ Len(observed) = 1
    /\ observed[1] = [agent_id |-> "a1", previous_status |-> "failed",
                      status |-> "failed", cached |-> FALSE]
    /\ Len(status_history["a1"]) = 3
    /\ status_history["a1"][1].status = "running"
    /\ status_history["a1"][2].status = "failed"
    /\ Cardinality({j \in 1 .. Len(status_changes["a1"]) :
                       Triple(status_changes["a1"][j]) = <<"a1", "running", "failed">>}) = 1
    /\ \E n \in Sent :
          /\ Triple(n.change) = <<"a1", "running", "failed">>
          /\ notifications[n] = 1
    /\ returned = << >>

\* C27: the first status fetched for a newly registered agent only seeds
\* its state: the initial poll of a start_monitoring call that registers
\* agents for the first time returns no change, dispatches nothing and
\* leaves the agents' changes lists empty, whatever the source reports
C27_FirstObservationSilent ==
    [][\A agent_ids \in LifeInputs.lists, pattern \in LifeInputs.patterns :
          \/ Range(agent_ids) \cap DOMAIN agent_statuses # {}
          \/ /\ returned' = << >>
             /\ notifications' = notifications
             /\ \A a \in Range(agent_ids) :
                   a \in DOMAIN status_changes' /\ status_changes'[a] = << >>
          \/ ~StartCall(agent_ids, pattern)]_vars

\* what the status source can offer a cycle of agent_ids when the fetch of
\* the agent at position i fails: its file is missing or does not load
FetchFails(agent_ids, i) ==
    {files \in FilesFor(agent_ids,
                        [a \in AgentIds |-> LifeInputs.files[a] \cup {NoFile, BadFile}]) :
        files[i].kind # "data"}

\* the step is the scheduler-fired cycle of job j that reads these files
CycleReading(j, files) ==
    /\ sched_running
    /\ run_job(j, files, failing)
    /\ UNCHANGED <<notification_channels, failing, environ, clock, enable_scheduling, pc,
                   frame>>

\* the cycle went through every agent of the list, and each agent other than
\* the one at position i has the status fetched for it as its current
\* status and one more history entry
OthersProcessed(agent_ids, i, files) ==
    /\ Len(observed') = Len(agent_ids)
    /\ \A j \in 1 .. Len(agent_ids) :
          /\ observed'[j].agent_id = agent_ids[j]
          /\ (j # i /\ agent_ids[j] # agent_ids[i]) =>
                /\ agent_statuses'[agent_ids[j]] =
                       fetch_agent_status(agent_statuses, agent_ids[j], files[j])
                /\ Len(status_history'[agent_ids[j]]) =
                       Len(status_history[agent_ids[j]]) + 1

\* C28: when the fetch of one agent fails in a poll cycle (status file
\* missing, unreadable or malformed), the cycle still processes every other
\* agent of its list, the failing agent keeps the current status it had,
\* and no StatusChange and no notification is produced for it
C28_FetchFailureIsolated ==
    [][\A k \in 1 .. Len(sched_jobs) :
          \A i \in 1 .. Len(sched_jobs[k].args) :
              \A files \in FetchFails(sched_jobs[k].args, i) :
                  \/ /\ agent_statuses'[sched_jobs[k].args[i]] =
                            agent_statuses[sched_jobs[k].args[i]]
                     /\ NothingRecordedFor(sched_jobs[k].args[i])
                     /\ OthersProcessed(sched_jobs[k].args, i, files)
                  \/ ~CycleReading(sched_jobs[k], files)]_vars

\* a cycle of <<"a1", "a2">> found no status for a1, which is still at the
\* Unknown of its registration, and went on to a2, which is running
C28_Witness ==
    /\ Len(observed) = 2
    /\ observed[1] = [agent_id |-> "a1", previous_status |-> UNKNOWN,
                      status |-> UNKNOWN, cached |-> FALSE]
    /\ observed[2].agent_id = "a2"
    /\ agent_statuses["a1"].status = UNKNOWN
    /\ status_changes["a1"] = << >>
    /\ Len(status_history["a1"]) >= 2
    /\ agent_statuses["a2"].status = "running"
    /\ Len(status_history["a2"]) >= 2

\* C29: a change that was dispatched is never lost from the history of
\* changes: after any poll cycle, start_monitoring or stop_monitoring call,
\* every StatusChange handed to _send_notifications is still an entry of
\* status_changes of its agent
C29_DispatchedChangeKept ==
    \A n \in Sent :
        /\ n.change.agent_id \in DOMAIN status_changes
        /\ \E j \in 1 .. Len(status_changes[n.change.agent_id]) :
              status_changes[n.change.agent_id][j] = n.change

\* a change as line 259 to 276 make it for the agent of key a: its two
\* statuses differ, it names the agent, its hash is the fingerprint of its
\* own fields and is in the dedup cache
WellFormedChange(c, a) ==
    /\ c.previous_status # c.new_status
    /\ c.agent_id = a
    /\ c.change_hash = change_hash(c.agent_id, c.previous_status, c.new_status)
    /\ c.change_hash \in alert_cache

\* C32: every StatusChange in a changes list, and every one the last poll
\* returned, has a previous_status different from its new_status, the
\* agent_id of the list that holds it (of an agent the cycle polled, for a
\* returned one), and a change_hash that is the fingerprint of its own
\* (agent_id, previous_status, new_status) and is in the dedup cache
C32_ChangesWellFormed ==
    /\ \A a \in DOMAIN status_changes :
          \A j \in 1 .. Len(status_changes[a]) :
              WellFormedChange(status_changes[a][j], a)
    /\ \A j \in 1 .. Len(returned) :
          \E k \in 1 .. Len(observed) :
              WellFormedChange(returned[j], observed[k].agent_id)

\* the last cycle returned a change for each of two agents and both stand in
\* the changes list of their agent
C32_Witness ==
    /\ Len(returned) = 2
    /\ returned[1].agent_id = "a1"
    /\ returned[2].agent_id = "a2"
    /\ \A j \in 1 .. 2 :
          \E i \in 1 .. Len(status_changes[returned[j].agent_id]) :
              status_changes[returned[j].agent_id][i] = returned[j]

\* C34: every monitored agent is polled by every cycle the scheduler fires:
\* while the scheduler runs, the agent list of each job it holds contains
\* every agent that start_monitoring has registered, those added by a call
\* made after the schedule was armed included
C34_EveryMonitoredAgentPolled ==
    sched_running =>
        \A k \in 1 .. Len(sched_jobs) :
            DOMAIN agent_statuses \subseteq Range(sched_jobs[k].args)

\* the most recent change recorded for agent a
LastChange(a) == status_changes[a][Len(status_changes[a])]

C37_TrackingConsistent ==
    /\ DOMAIN agent_statuses = DOMAIN status_history
    /\ DOMAIN status_history = DOMAIN status_changes
    /\ \A k \in 1 .. Len(observed) :
          /\ status_history[observed[k].agent_id] # << >>
          /\ LastSnapshot(observed[k].agent_id) = agent_statuses[observed[k].agent_id]

\* two agents are tracked, each with its three entries, after a call that
\* polled both: the history of each ends with its current snapshot
C37_Witness ==
    /\ DOMAIN agent_statuses = {"a1", "a2"}
    /\ DOMAIN status_history = {"a1", "a2"}
    /\ DOMAIN status_changes = {"a1", "a2"}
    /\ Len(observed) = 2
    /\ Len(status_history["a1"]) = 2
    /\ LastSnapshot("a1") = agent_statuses["a1"]
    /\ LastSnapshot("a2") = agent_statuses["a2"]
    /\ agent_statuses["a1"].status = "failed"

(***************************************************************************)
(* Claims on the threads (ConcSpec).                                       *)
(***************************************************************************)
\* thread t is inside _poll_agents
InPoll(t) == pc[t] \in {"fetch", "detect", "record", "update", "return"}

\* C6: two executions of _poll_agents are never in progress at once, the
\* initial poll of start_monitoring on the caller's thread and the polls the
\* scheduler fires on its worker thread counted alike.
C6_OnePollAtATime == ~(InPoll("caller") /\ InPoll("worker"))

\* C7: inside start_monitoring the tracking is initialised, then the initial
\* poll runs to completion, and only then is the scheduler armed: while the
\* initial poll has not finished the call has armed no schedule, so no poll
\* fired from it can begin.
C7_ArmAfterInitialPoll ==
    (pc["caller"] \in {"arm", "fetch", "detect", "record", "update"})
        => frame["caller"].outcome # "scheduled"

(***************************************************************************)
(* Claims on the network channels (NotifySpec).                            *)
(***************************************************************************)
\* the levels of the records one attempt logged
LevelsOf(records) == {records[r].level : r \in 1 .. Len(records)}

\* C21: with the webhook channel configured and NOTIFICATION_WEBHOOK_URL not
\* set, a dispatch makes no request on the webhook channel and logs no error
\* for it (a debug record only); every configured channel is still
\* attempted, the channels after it deliver, and the cycle that dispatched
\* applies the status it fetched
C21_UnsetWebhookIsNoOp ==
    environ["NOTIFICATION_WEBHOOK_URL"] = NoUrl =>
        /\ \A n \in Sent :
              /\ Len(n.attempts) = Len(notification_channels)
              /\ \A i \in 1 .. Len(n.attempts) :
                    IF Lower(n.attempts[i].channel) = "webhook"
                    THEN /\ n.posts[i] = 0
                         /\ n.attempts[i].outcome = "disabled"
                         /\ LevelsOf(n.logs[i]) = {"DEBUG"}
                    ELSE Lower(n.attempts[i].channel) = "log" =>
                            n.attempts[i].outcome = "ok"
        /\ \A k \in 1 .. Len(observed) :
              agent_statuses[observed[k].agent_id].status = observed[k].status

\* a change was dispatched to <<"webhook", "log">> with the URL not set and
\* the webhook transport down: the webhook attempt did nothing, the log
\* attempt delivered
C21_Witness ==
    /\ environ["NOTIFICATION_WEBHOOK_URL"] = NoUrl
    /\ "webhook" \in failing
    /\ \E n \in Sent :
          /\ Len(n.attempts) = 2
          /\ n.attempts[1] = [channel |-> "webhook", outcome |-> "disabled"]
          /\ n.posts[1] = 0
          /\ n.attempts[2] = [channel |-> "log", outcome |-> "ok"]
          /\ n.change.new_status = "failed"

\* C22: what the webhook and the Slack notifier log does not depend on the
\* channel secrets: had the process run in any other environment of
\* Environs in which the attempt has the same delivery outcome, the attempt
\* would have logged the same records
C22_LogsIndependentOfSecrets ==
    \A n \in Sent : \A i \in 1 .. Len(n.attempts) :
        LET kind == Lower(n.attempts[i].channel)
        IN kind \in {"webhook", "slack"} =>
              \A env \in Environs :
                  notify_in(env, kind, failing) = n.attempts[i].outcome =>
                      webhook_logs_in(env, kind, n.change, failing) = n.logs[i]

(***************************************************************************)
(* Claims on stopping (StopSpec).                                          *)
(***************************************************************************)
\* the scheduler has been shut down while the job is in flight
StoppedInFlight == ~sched_running /\ InPoll("worker")

\* C23: stop_monitoring() does not preempt the cycle in flight: a job that
\* is running when the scheduler is shut down reaches its return, a job
\* that returns has processed every agent of its list (its loop index is
\* past the list, each pass having applied its update), and while the
\* scheduler stays shut down an idle worker starts no cycle
C23_StopIsNonPreemptive ==
    /\ [](pc["worker"] = "return" =>
             frame["worker"].i = Len(frame["worker"].agent_ids) + 1)
    /\ [][(pc["worker"] = "idle" /\ ~sched_running /\ ~sched_running') =>
             pc'["worker"] = "idle"]_vars
    /\ (StoppedInFlight ~> pc["worker"] = "return")

\* the scheduler was shut down while the job had processed the first of its
\* two agents, and the job went on to the second
C23_Witness ==
    /\ ~sched_running
    /\ pc["caller"] = "shutdown"
    /\ pc["worker"] = "update"
    /\ frame["worker"].i = 2

(***************************************************************************)
(* Claims on the queries under concurrency (RaceSpec).                     *)
(***************************************************************************)
\* C24: get_agent_status and get_status_history, called at any point of a
\* start_monitoring call or of its poll, never raise, and never find an
\* agent that is partially initialised: every agent with a current status
\* has its history list and its changes list
C24_QueriesNeverSeePartialAgent ==
    /\ "raised" \notin DOMAIN result
    /\ \A a \in DOMAIN agent_statuses :
          a \in DOMAIN status_history /\ a \in DOMAIN status_changes

(***************************************************************************)
(* Claims on the order of the snapshots (OrderSpec).                       *)
(***************************************************************************)
\* C30: the snapshots of one agent are applied in the order they were
\* fetched, however the initial poll of start_monitoring and the polls of
\* the scheduler interleave: a snapshot fetched earlier stands before a
\* snapshot fetched later in the agent's history, and once the later one
\* has been applied the earlier one is not the current status
C30_AppliedInFetchOrder ==
    \A a \in DOMAIN status_history :
        /\ \A i, j \in 1 .. Len(status_history[a]) :
              i < j => status_history[a][i].timestamp <= status_history[a][j].timestamp
        /\ \A i \in 1 .. Len(status_history[a]) :
              status_history[a][i].timestamp <= agent_statuses[a].timestamp

(***************************************************************************)
(* Claims on the dedup cache under concurrency (ConcSpec).                 *)
(***************************************************************************)
\* C31: the test of the dedup cache (line 272) and the insertion (line 276)
\* exclude each other between two polls that overlap: whatever the
\* interleaving, a change is dispatched at most once and stands at most
\* once in the changes list of its agent
C31_DedupAtomicAcrossPolls ==
    /\ \A n \in Sent : notifications[n] <= 1
    /\ \A a \in DOMAIN status_changes :
          \A i, j \in 1 .. Len(status_changes[a]) :
              Triple(status_changes[a][i]) = Triple(status_changes[a][j]) => i = j

(***************************************************************************)
(* Claims on what the status source supplies (SourceSpec).                 *)
(***************************************************************************)
\* C33: the status of every current snapshot and of every history entry,
\* and both statuses of every recorded change, are AgentStatus values,
\* whatever the status source supplies
C33_StatusesInEnumeration ==
    /\ \A a \in DOMAIN agent_statuses : agent_statuses[a].status \in AgentStatus
    /\ \A a \in DOMAIN status_history :
          \A i \in 1 .. Len(status_history[a]) :
              status_history[a][i].status \in AgentStatus
    /\ \A a \in DOMAIN status_changes :
          \A i \in 1 .. Len(status_changes[a]) :
              /\ status_changes[a][i].previous_status \in AgentStatus
              /\ status_changes[a][i].new_status \in AgentStatus

\* C36: deduplication is per agent and per transition: a status that
\* differs from the previous one is dropped as a duplicate only if a change
\* with the same agent_id, previous_status and new_status was recorded (and
\* dispatched) before, never because of another agent's transition
C36_DedupPerAgent ==
    \A k \in 1 .. Len(observed) :
        (Differs(k) /\ observed[k].cached) =>
            \E n \in Sent :
                Triple(n.change) =
                    <<observed[k].agent_id, observed[k].previous_status,
                      observed[k].status>>

\* C38: the snapshot stored as the current status of agent k and every
\* snapshot in the history of k carry agent_id = k, whatever snapshot the
\* status source returns for k
C38_SnapshotsCarryTheirKey ==
    /\ \A k \in DOMAIN agent_statuses : agent_statuses[k].agent_id = k
    /\ \A k \in DOMAIN status_history :
          \A i \in 1 .. Len(status_history[k]) : status_history[k][i].agent_id = k

(***************************************************************************)
(* SunoSpec: one call of SunoAIMusicGenerator.generate_music of            *)
(* skills/suno-music-generator/skill.py, with the polling loop of          *)
(* _poll_for_completion taken one status request at a time. The caller's   *)
(* thread is "idle" (no call yet), at "poll" (the loop test of line 223),  *)
(* at "polled" (_poll_for_completion has returned or raised, line 143) or  *)
(* "done" (generate_music has returned); frame["caller"] holds the locals  *)
(* of _poll_for_completion and result the dictionary generate_music        *)
(* returns. The monitor's variables stay as constructed.                   *)
(***************************************************************************)
MaxRetries == 3

\* song_data.get("audio_url") of a finished song (line 236)
AudioUrl == Url("https", "//cdn.suno.ai/song.mp3")

\* what the GET of /v1/songs/{song_id} can bring (lines 225-261): a 200 with
\* a status that is neither complete nor error, a 200 with status complete
\* (with and without an audio_url), a 200 with status error, another status
\* code, a RequestException, a 200 whose body is not JSON
SongResponses ==
    {"in_progress", "complete", "complete_no_url", "error", "non_200", "exception",
     "bad_json"}

\* how generate_music gets to line 143: "ok", or the error it returns
\* before (lines 73-139 and the handlers of lines 172-198)
GenerateOutcomes ==
    {"ok", "validation_error", "api_error", "invalid_response", "timeout",
     "request_error"}

\* the locals of _poll_for_completion at line 221; requests lists the
\* responses of the status requests made so far
poll_frame(max_retries) ==
    [max_retries |-> max_retries, retry_count |-> 0, requests |-> << >>,
     file_url |-> None, outcome |-> "running"]

\* the loop test with `<=` for `<`
retries_left_inclusive(f) == f.retry_count <= f.max_retries

\* line 223: while retry_count < self.max_retries
retries_left(f) == f.retry_count < f.max_retries

\* one pass of the loop (lines 224-261) that receives response r. caught
\* tells whether the error response.json() raises on a body that is not
\* JSON is a RequestException (it is in requests 2.27 and later, a plain
\* ValueError before): caught at line 258 or leaving the function.
poll_once(f, r, caught) ==
    LET got == [f EXCEPT !.requests = Append(@, r)]
        retry == [got EXCEPT !.retry_count = @ + 1]
    IN  CASE r = "complete" ->
                [got EXCEPT !.file_url = AudioUrl, !.outcome = "returned"]
          [] r \in {"complete_no_url", "error", "non_200"} ->
                [got EXCEPT !.file_url = None, !.outcome = "returned"]
          [] r \in {"in_progress", "exception"} -> retry
          [] r = "bad_json" ->
                IF caught THEN retry ELSE [got EXCEPT !.outcome = "raised"]

\* lines 145-170 and 199-208: the dictionary generate_music returns once
\* _poll_for_completion has returned file_url, or raised
generate_result(f) ==
    IF f.outcome = "raised" THEN [status |-> "error", error_type |-> "unexpected"]
    ELSE IF f.file_url # None THEN [status |-> "success", file_url |-> f.file_url]
    ELSE [status |-> "error", error_type |-> "generation_timeout"]

\* generate_music up to the call of line 143
GenerateMusic ==
    /\ pc["caller"] = "idle"
    /\ \E max_retries \in 0 .. MaxRetries, outcome \in GenerateOutcomes :
          IF outcome = "ok"
          THEN /\ pc' = [pc EXCEPT !["caller"] = "poll"]
               /\ frame' = [frame EXCEPT !["caller"] = poll_frame(max_retries)]
               /\ UNCHANGED result
          ELSE /\ pc' = [pc EXCEPT !["caller"] = "done"]
               /\ result' = [status |-> "error", error_type |-> outcome]
               /\ UNCHANGED frame
    /\ UNCHANGED <<notification_channels, failing, environ, clock, enable_scheduling,
                   monitor_vars, polling_active, sched_running, sched_jobs,
                   notifications, returned, observed>>

\* one status request: a pass of the loop of _poll_for_completion
StatusRequest ==
    /\ pc["caller"] = "poll"
    /\ retries_left(frame["caller"])
    /\ \E r \in SongResponses, caught \in BOOLEAN :
          LET f == poll_once(frame["caller"], r, caught)
          IN  /\ frame' = [frame EXCEPT !["caller"] = f]
              /\ pc' = [pc EXCEPT !["caller"] =
                            IF f.outcome = "running" THEN "poll" ELSE "polled"]
    /\ UNCHANGED <<notification_channels, failing, environ, clock, enable_scheduling,
                   monitor_vars, polling_active, sched_running, sched_jobs,
                   notifications, returned, observed, result>>

\* lines 263-264: the loop ends with no retry left
PollTimedOut ==
    /\ pc["caller"] = "poll"
    /\ ~retries_left(frame["caller"])
    /\ frame' = [frame EXCEPT !["caller"] =
                    [@ EXCEPT !.file_url = None, !.outcome = "returned"]]
    /\ pc' = [pc EXCEPT !["caller"] = "polled"]
    /\ UNCHANGED <<notification_channels, failing, environ, clock, enable_scheduling,
                   monitor_vars, polling_active, sched_running, sched_jobs,
                   notifications, returned, observed, result>>

\* generate_music from line 143 to its return
ReportResult ==
    /\ pc["caller"] = "polled"
    /\ result' = generate_result(frame["caller"])
    /\ pc' = [pc EXCEPT !["caller"] = "done"]
    /\ UNCHANGED <<notification_channels, failing, environ, clock, enable_scheduling,
                   monitor_vars, polling_active, sched_running, sched_jobs,
                   notifications, returned, observed, frame>>

SunoInit == LifeInit /\ ~enable_scheduling /\ failing = {}

SunoNext ==
    \/ GenerateMusic
    \/ StatusRequest
    \/ PollTimedOut
    \/ ReportResult

\* the call runs on its caller's thread, which keeps running: every
\* requests.get returns or raises within its timeout, every sleep ends
SunoSpec == SunoInit /\ [][SunoNext]_vars /\ WF_vars(SunoNext)

(***************************************************************************)
(* Claims on the polling loop of the music generator (SunoSpec).          *)
(***************************************************************************)
\* the call has reached _poll_for_completion
Polling == pc["caller"] \in {"poll", "polled"} \/ (pc["caller"] = "done" /\ frame["caller"] # None)

\* no more status requests than max_retries
PollBounded ==
    Polling => Len(frame["caller"].requests) <= frame["caller"].max_retries

\* a file URL only when some response reported status complete
UrlOnlyIfComplete ==
    (Polling /\ frame["caller"].file_url # None) =>
        \E i \in 1 .. Len(frame["caller"].requests) :
            frame["caller"].requests[i] = "complete"

\* generate_music reports success with the URL returned, an error without
NoUrlIsError ==
    pc["caller"] = "done" =>
        /\ result.status \in {"success", "error"}
        /\ result.status = "success" =>
              /\ frame["caller"] # None
              /\ frame["caller"].file_url # None
              /\ result.file_url = frame["caller"].file_url
        /\ (frame["caller"] # None /\ frame["caller"].file_url = None) =>
              result.status = "error"

\* C39: _poll_for_completion ends for every sequence of responses after at
\* most max_retries status requests, returns a file URL only if a response
\* reported status complete, and generate_music reports every outcome
\* without a URL as an error result
C39_PollTerminatesBounded ==
    /\ [](PollBounded /\ UrlOnlyIfComplete /\ NoUrlIsError)
    /\ (pc["caller"] = "poll") ~> (pc["caller"] = "done")

\* the loop used all of its three retries on responses in progress and on
\* request exceptions, and generate_music reported the timeout
C39_Witness ==
    /\ pc["caller"] = "done"
    /\ frame["caller"] # None
    /\ frame["caller"].max_retries = MaxRetries
    /\ Len(frame["caller"].requests) = MaxRetries
    /\ frame["caller"].requests[1] = "in_progress"
    /\ frame["caller"].requests[2] = "exception"
    /\ frame["caller"].file_url = None
    /\ result = [status |-> "error", error_type |-> "generation_timeout"]
====
